---- MODULE Spec2Model ----
(***************************************************************************)
(* Voice-command actions of action.py (RPi AIY): the keyword registry      *)
(* built by make_actor, the dispatcher that routes an utterance to the     *)
(* first registered keyword it contains, and the handlers' run methods.    *)
(*                                                                         *)
(* Text is a sequence of one-character strings, so that containment,       *)
(* find, slicing, replace, lower and strip are computed, not assumed.      *)
(* Indices of Find and Slice are Python's (0-based).                       *)
(***************************************************************************)
EXTENDS Integers, Sequences, FiniteSets, TLC

VARIABLES
    regName,        \* which configuration built the registry
    registry,       \* actor's ordered bindings [keyword, handler]
    caseInsensitive,\* normalization mode of the dispatcher
    pc,             \* "idle" | "run" | "poll" | "sleep"
    utterance,      \* the utterance dispatch received
    matched,        \* index of the selected binding, 0 when none
    voice_command,  \* the argument handed to handler.run
    runs,           \* indices of the bindings whose run was invoked by this dispatch
    outcome,        \* result of the last dispatch
    said,           \* texts passed to say() by this dispatch
    logged,         \* logging.exception calls of this dispatch
    volume,         \* the mixer's Master level, in percent
    volumeBefore,   \* the mixer's level when this dispatch began
    volumeSet,      \* levels passed to SET_VOLUME by this dispatch
    env,            \* what the shell / network answered to this dispatch
    command,        \* Radio.run / Podcast.run local "command"
    player,         \* "none" | "running" | "killed" | "orphaned"
    playerInput,    \* bytes written to the mpsyt process
    pin23           \* last value read from gpio.input(23)

vars == <<regName, registry, caseInsensitive, pc, utterance, matched,
          voice_command, runs, outcome, said, logged, volume, volumeBefore,
          volumeSet, env, command, player, playerInput, pin23>>

-----------------------------------------------------------------------------
(* Text primitives (Python str / bytes methods used by action.py)          *)

MinOf(a, b) == IF a <= b THEN a ELSE b
MaxOf(a, b) == IF a >= b THEN a ELSE b

UpperLetters == <<"A","B","C","D","E","F","G","H","I","J","K","L","M","N","O","P","Q","R","S","T","U","V","W","X","Y","Z">>
LowerLetters == <<"a","b","c","d","e","f","g","h","i","j","k","l","m","n","o","p","q","r","s","t","u","v","w","x","y","z">>

\* variant: no folding
LowerCharIdentity(c) == c

\* str.lower() on one character
LowerChar(c) ==
    IF \E i \in 1..Len(UpperLetters) : UpperLetters[i] = c
    THEN LowerLetters[CHOOSE i \in 1..Len(UpperLetters) : UpperLetters[i] = c]
    ELSE c

\* str.lower()
Lower(s) == [i \in 1..Len(s) |-> LowerChar(s[i])]

RECURSIVE FindFrom(_, _, _)
\* lowest 0-based index i >= start with text[i:i+len(sub)] = sub, else -1
FindFrom(text, sub, i) ==
    IF i + Len(sub) > Len(text) THEN -1
    ELSE IF SubSeq(text, i + 1, i + Len(sub)) = sub THEN i
    ELSE FindFrom(text, sub, i + 1)

\* variant: looks at index start only
FindPrefixOnly(text, sub, start) ==
    IF start + Len(sub) <= Len(text)
       /\ SubSeq(text, start + 1, start + Len(sub)) = sub
    THEN start ELSE -1

\* str.find(sub, start)
Find(text, sub, start) == FindFrom(text, sub, start)

\* sub in text
Contains(sub, text) == Find(text, sub, 0) /= -1

\* text[a:b] for a, b >= 0
Slice(text, a, b) ==
    LET lo == MinOf(a, Len(text))
        hi == MinOf(b, Len(text))
    IN  IF lo >= hi THEN <<>> ELSE SubSeq(text, lo + 1, hi)

\* s.replace(old, '', 1)
ReplaceFirst(s, old) ==
    LET i == Find(s, old, 0)
    IN  IF i = -1 THEN s
        ELSE SubSeq(s, 1, i) \o SubSeq(s, i + Len(old) + 1, Len(s))

Whitespace == {" ", "\n", "\t"}

RECURSIVE LStrip(_)
LStrip(s) == IF s /= <<>> /\ Head(s) \in Whitespace THEN LStrip(Tail(s)) ELSE s

RECURSIVE RStrip(_)
RStrip(s) ==
    IF s /= <<>> /\ s[Len(s)] \in Whitespace
    THEN RStrip(SubSeq(s, 1, Len(s) - 1)) ELSE s

\* bytes.strip()
Strip(s) == RStrip(LStrip(s))

Digits == <<"0","1","2","3","4","5","6","7","8","9">>

DigitValue(c) == (CHOOSE i \in 1..10 : Digits[i] = c) - 1

IsDigit(c) == \E i \in 1..10 : Digits[i] = c

RECURSIVE DecimalValue(_)
DecimalValue(s) ==
    IF s = <<>> THEN 0
    ELSE 10 * DecimalValue(SubSeq(s, 1, Len(s) - 1)) + DigitValue(s[Len(s)])

\* int(res) succeeds (no ValueError); res is amixer's stripped output
IsIntText(s) == s /= <<>> /\ \A i \in 1..Len(s) : IsDigit(s[i])

\* int(res)
ParseInt(s) == DecimalValue(s)

RECURSIVE ToDecimal(_)
\* '%d' % n for n >= 0
ToDecimal(n) ==
    IF n < 10 THEN <<Digits[n + 1]>>
    ELSE ToDecimal(n \div 10) \o <<Digits[(n % 10) + 1]>>

-----------------------------------------------------------------------------
(* Handlers: construction-time configuration and the pure part of run      *)

Handler(type, keyword, change, failure_text) ==
    [type |-> type, keyword |-> keyword, change |-> change,
     failure_text |-> failure_text]

SpeakShellCommandOutput(failure_text) ==
    Handler("SpeakShellCommandOutput", <<>>, 0, failure_text)
VolumeControl(change) == Handler("VolumeControl", <<>>, change, <<>>)
RepeatAfterMe(keyword) == Handler("RepeatAfterMe", keyword, 0, <<>>)
Radio(keyword) == Handler("Radio", keyword, 0, <<>>)
Podcast(keyword) == Handler("Podcast", keyword, 0, <<>>)
play(keyword) == Handler("play", keyword, 0, <<>>)

Binding(keyword, handler) == [keyword |-> keyword, handler |-> handler]

\* the sentinel "1" that Radio.run and Podcast.run give to command
Sentinel == <<"1">>

\* variant: a non-zero exit is answered with the failure text
SpeakShellSwallowsFailure(h, sh) ==
    LET output == Strip(sh.output)
    IN  IF sh.exit /= 0 THEN [raised |-> "none", say |-> <<h.failure_text>>]
        ELSE IF output /= <<>> THEN [raised |-> "none", say |-> <<output>>]
        ELSE [raised |-> "none", say |-> <<>>]

\* SpeakShellCommandOutput.run; sh is what the shell command answered.
\* check_output raises CalledProcessError on a non-zero exit status.
SpeakShellCommandOutputRun(h, sh) ==
    LET output == Strip(sh.output)
    IN  IF sh.exit /= 0
        THEN [raised |-> "CalledProcessError", say |-> <<>>]
        ELSE IF output /= <<>> THEN [raised |-> "none", say |-> <<output>>]
        ELSE IF h.failure_text /= <<>>
             THEN [raised |-> "none", say |-> <<h.failure_text>>]
        ELSE [raised |-> "none", say |-> <<>>]

MaxVolume == 100
MinVolume == 0

\* variant: no upper limit
ClampLowerOnly(vol) == MaxOf(MinVolume, vol)

\* max(0, min(100, vol))
Clamp(vol) == MaxOf(MinVolume, MinOf(MaxVolume, vol))

\* _('Volume at %d %%.') % vol
VolumeText(vol) == <<"V","o","l","u","m","e"," ","a","t"," ">> \o ToDecimal(vol) \o <<" ","%",".">>

\* VolumeControl.run; q is what the GET_VOLUME pipeline answered.  The
\* check_output call stands before the try block: its CalledProcessError
\* is not caught by run.  int(res) raising ValueError is caught and logged.
VolumeControlRun(h, q) ==
    LET res == Strip(q.output)
    IN  IF q.exit /= 0
        THEN [raised |-> "CalledProcessError", set |-> <<>>, say |-> <<>>,
              logged |-> <<>>]
        ELSE IF ~IsIntText(res)
        THEN [raised |-> "none", set |-> <<>>, say |-> <<>>,
              logged |-> <<<<"E","r","r","o","r"," ","u","s","i","n","g"," ","a","m","i","x","e","r"," ","t","o"," ","a","d","j","u","s","t"," ","v","o","l","u","m","e",".">>>>]
        ELSE LET vol == Clamp(ParseInt(res) + h.change)
             IN  [raised |-> "none", set |-> <<vol>>,
                  say |-> <<VolumeText(vol)>>, logged |-> <<>>]

\* variant: the command is lower-cased first, as Radio.run does
RepeatAfterMeLowered(h, vc) == <<ReplaceFirst(Lower(vc), h.keyword)>>

\* RepeatAfterMe.run: what is said
RepeatAfterMeRun(h, vc) == <<ReplaceFirst(vc, h.keyword)>>

\* the if / elif chain of Radio.run, in its order
StationTable == <<
    <<<<"a","b","s","o","l","u","t","e"," ","r","a","d","i","o">>, <<"h","t","t","p",":","/","/","n","e","t","w","o","r","k",".","a","b","s","o","l","u","t","e","r","a","d","i","o",".","c","o",".","u","k","/","c","o","r","e","/","a","u","d","i","o","/","m","p","3","/","l","i","v","e",".","p","l","s","?","s","e","r","v","i","c","e","=","a","r","b","b">>>>,
    <<<<"a","b","s","o","l","u","t","e"," ","8","0","s">>, <<"h","t","t","p",":","/","/","n","e","t","w","o","r","k",".","a","b","s","o","l","u","t","e","r","a","d","i","o",".","c","o",".","u","k","/","c","o","r","e","/","a","u","d","i","o","/","m","p","3","/","l","i","v","e",".","p","l","s","?","s","e","r","v","i","c","e","=","a","8","b","b">>>>,
    <<<<"a","b","s","o","l","u","t","e"," ","9","0","s">>, <<"h","t","t","p",":","/","/","n","e","t","w","o","r","k",".","a","b","s","o","l","u","t","e","r","a","d","i","o",".","c","o",".","u","k","/","c","o","r","e","/","a","u","d","i","o","/","m","p","3","/","l","i","v","e",".","p","l","s","?","s","e","r","v","i","c","e","=","a","9","b","b">>>>,
    <<<<"a","b","s","o","l","u","t","e"," ","n","o","u","g","h","t","i","e","s">>, <<"h","t","t","p",":","/","/","n","e","t","w","o","r","k",".","a","b","s","o","l","u","t","e","r","a","d","i","o",".","c","o",".","u","k","/","c","o","r","e","/","a","u","d","i","o","/","m","p","3","/","l","i","v","e",".","p","l","s","?","s","e","r","v","i","c","e","=","a","0","b","b">>>>,
    <<<<"e","a","g","l","e"," ","r","a","d","i","o">>, <<"h","t","t","p",":","/","/","s","t","r","1",".","s","a","d",".","u","k","r","d",".","c","o","m","/","e","a","g","l","e",".","m","3","u">>>>,
    <<<<"b","b","c"," ","r","a","d","i","o"," ","1">>, <<"h","t","t","p",":","/","/","w","w","w",".","l","i","s","t","e","n","l","i","v","e",".","e","u","/","b","b","c","r","a","d","i","o","1",".","m","3","u">>>>,
    <<<<"b","b","c"," ","r","a","d","i","o"," ","2">>, <<"h","t","t","p",":","/","/","w","w","w",".","l","i","s","t","e","n","l","i","v","e",".","e","u","/","b","b","c","r","a","d","i","o","2",".","m","3","u">>>>,
    <<<<"b","b","c"," ","r","a","d","i","o"," ","3">>, <<"h","t","t","p",":","/","/","w","w","w",".","l","i","s","t","e","n","l","i","v","e",".","e","u","/","b","b","c","r","a","d","i","o","3",".","m","3","u">>>>,
    <<<<"b","b","c"," ","r","a","d","i","o"," ","4">>, <<"h","t","t","p",":","/","/","w","w","w",".","l","i","s","t","e","n","l","i","v","e",".","e","u","/","b","b","c","r","a","d","i","o","4",".","m","3","u">>>>,
    <<<<"c","a","p","i","t","a","l"," ","f","m">>, <<"h","t","t","p",":","/","/","m","e","d","i","a","-","i","c","e",".","m","u","s","i","c","r","a","d","i","o",".","c","o","m","/","C","a","p","i","t","a","l","M","P","3",".","m","3","u">>>> >>

\* Radio.run up to the test of command: the stream URL, or the sentinel
RadioCommand(vc) ==
    LET v == Lower(vc)
        hits == {i \in 1..Len(StationTable) : Contains(StationTable[i][1], v)}
    IN  IF hits = {} THEN Sentinel
        ELSE StationTable[CHOOSE i \in hits : \A j \in hits : i <= j][2]

EnclosureMarker == <<"<","e","n","c","l","o","s","u","r","e"," ","u","r","l","=","\"">>
RedirectMarker == <<"/","r","e","d","i","r","e","c","t",".","m","p","3","/">>
Mp3 == <<".","m","p","3">>

\* the branch of Podcast.run for the audioboom feeds; fetch is what
\* urlopen / read answered.  find gives -1 when the marker is absent.
EnclosureCommand(fetch) ==
    IF ~fetch.fetchOk THEN [raised |-> "URLError", command |-> Sentinel]
    ELSE LET text == fetch.text
             startmp3 == Find(text, EnclosureMarker, 0) + 16
             endmp3 == Find(text, Mp3, startmp3) + 4
         IN  [raised |-> "none",
              command |-> IF startmp3 > 0 THEN Slice(text, startmp3, endmp3)
                          ELSE Sentinel]

\* the branch of Podcast.run for the feedburner feed
RedirectCommand(fetch) ==
    IF ~fetch.fetchOk THEN [raised |-> "URLError", command |-> Sentinel]
    ELSE LET text == fetch.text
             startmp3 == Find(text, RedirectMarker, 0) + 14
             endmp3 == Find(text, Mp3, startmp3 + 16) + 4
         IN  [raised |-> "none",
              command |-> IF startmp3 > 0
                          THEN <<"h","t","t","p",":","/","/">> \o Slice(text, startmp3, endmp3)
                          ELSE Sentinel]

\* which feed Podcast.run fetches for this command: "enclosure",
\* "redirect" or "none"
PodcastFeed(vc) ==
    LET v == Lower(vc)
    IN  IF Contains(<<"n","o"," ","s","u","c","h"," ","t","h","i","n","g"," ","a","s"," ","a"," ","f","i","s","h">>, v) THEN "enclosure"
        ELSE IF Contains(<<"g","o","o","d"," ","j","o","b"," ","b","r","a","i","n">>, v) THEN "enclosure"
        ELSE IF Contains(<<"f","r","e","a","k","o","n","o","m","i","c","s">>, v) THEN "redirect"
        ELSE "none"

\* Podcast.run up to the test of command
PodcastCommand(vc, fetch) ==
    IF PodcastFeed(vc) = "enclosure" THEN EnclosureCommand(fetch)
    ELSE IF PodcastFeed(vc) = "redirect" THEN RedirectCommand(fetch)
    ELSE [raised |-> "none", command |-> Sentinel]

\* play.run: the bytes written to mpsyt's stdin
PlayInput(h, vc) == <<"/">> \o ReplaceFirst(vc, h.keyword) \o <<"\n","1","\n">>

\* variant: the loop ignores the pin
StopNever(pinValue) == FALSE

\* the wait loop "while gpio.input(23)" ends when the pin reads low
StopRequested(pinValue) == pinValue = 0

-----------------------------------------------------------------------------
(* The registry                                                            *)

IpFailureText == <<"I"," ","d","o"," ","n","o","t"," ","h","a","v","e"," ","a","n"," ","i","p"," ","a","d","d","r","e","s","s"," ","a","s","s","i","g","n","e","d"," ","t","o"," ","m","e",".">>

\* variant: 'play' registered before 'radio' and 'podcast'
MakeActorPlayBeforeRadio == <<
    Binding(<<"i","p"," ","a","d","d","r","e","s","s">>, SpeakShellCommandOutput(IpFailureText)),
    Binding(<<"v","o","l","u","m","e"," ","u","p">>, VolumeControl(10)),
    Binding(<<"v","o","l","u","m","e"," ","d","o","w","n">>, VolumeControl(-10)),
    Binding(<<"m","a","x"," ","v","o","l","u","m","e">>, VolumeControl(100)),
    Binding(<<"r","e","p","e","a","t"," ","a","f","t","e","r"," ","m","e">>, RepeatAfterMe(<<"r","e","p","e","a","t"," ","a","f","t","e","r"," ","m","e">>)),
    Binding(<<"p","l","a","y">>, play(<<"p","l","a","y">>)),
    Binding(<<"r","a","d","i","o">>, Radio(<<"r","a","d","i","o">>)),
    Binding(<<"p","o","d","c","a","s","t">>, Podcast(<<"p","o","d","c","a","s","t">>)) >>

\* make_actor: the add_keyword calls, in their order
MakeActor == <<
    Binding(<<"i","p"," ","a","d","d","r","e","s","s">>, SpeakShellCommandOutput(IpFailureText)),
    Binding(<<"v","o","l","u","m","e"," ","u","p">>, VolumeControl(10)),
    Binding(<<"v","o","l","u","m","e"," ","d","o","w","n">>, VolumeControl(-10)),
    Binding(<<"m","a","x"," ","v","o","l","u","m","e">>, VolumeControl(100)),
    Binding(<<"r","e","p","e","a","t"," ","a","f","t","e","r"," ","m","e">>, RepeatAfterMe(<<"r","e","p","e","a","t"," ","a","f","t","e","r"," ","m","e">>)),
    Binding(<<"r","a","d","i","o">>, Radio(<<"r","a","d","i","o">>)),
    Binding(<<"p","o","d","c","a","s","t">>, Podcast(<<"p","o","d","c","a","s","t">>)),
    Binding(<<"p","l","a","y">>, play(<<"p","l","a","y">>)) >>

\* Further registries built from the same handler classes: the scenarios
\* of the dispatcher's contract and short keywords over a small alphabet.
Registries ==
    [make_actor |-> MakeActor,
     play_playlist |-> << Binding(<<"p","l","a","y">>, play(<<"p","l","a","y">>)),
                          Binding(<<"p","l","a","y","l","i","s","t">>, RepeatAfterMe(<<"p","l","a","y","l","i","s","t">>)) >>,
     playlist_play |-> << Binding(<<"p","l","a","y","l","i","s","t">>, RepeatAfterMe(<<"p","l","a","y","l","i","s","t">>)),
                          Binding(<<"p","l","a","y">>, play(<<"p","l","a","y">>)) >>,
     capital_radio |-> << Binding(<<"R","a","d","i","o">>, Radio(<<"R","a","d","i","o">>)) >>,
     short |-> << Binding(<<"a","b">>, RepeatAfterMe(<<"a","b">>)),
                  Binding(<<"b">>, RepeatAfterMe(<<"b">>)),
                  Binding(<<"A">>, RepeatAfterMe(<<"A">>)),
                  Binding(<<"b","a">>, RepeatAfterMe(<<"b","a">>)) >>]

RegNames == DOMAIN Registries

-----------------------------------------------------------------------------
(* The dispatcher (actionbase.Actor)                                       *)

\* step 1: case-fold in case-insensitive mode, exact text otherwise
Normalize(ci, s) == IF ci THEN Lower(s) ELSE s

\* step 2: the binding's keyword occurs in the utterance
Matches(ci, b, u) == Contains(Normalize(ci, b.keyword), Normalize(ci, u))

\* step 3: the first binding in registration order that matches, 0 if none
FirstMatch(ci, reg, u) ==
    LET hits == {i \in 1..Len(reg) : Matches(ci, reg[i], u)}
    IN  IF hits = {} THEN 0
        ELSE CHOOSE i \in hits : \A j \in hits : i <= j

NoOutcome == [kind |-> "None", keyword |-> <<>>, error |-> "none"]
NoMatch == [kind |-> "NoMatch", keyword |-> <<>>, error |-> "none"]
Handled(keyword) == [kind |-> "Handled", keyword |-> keyword, error |-> "none"]
HandlerFailed(keyword, error) ==
    [kind |-> "HandlerFailed", keyword |-> keyword, error |-> error]

\* step 5: the outcome of a run that returned (raised = "none") or raised
OutcomeOf(keyword, raised) ==
    IF raised = "none" THEN Handled(keyword)
    ELSE HandlerFailed(keyword, raised)

-----------------------------------------------------------------------------
(* Inputs                                                                  *)

MaxLen == 3
Sigma == {"a", "b", "A"}

RECURSIVE TextsUpTo(_)
TextsUpTo(n) ==
    IF n = 0 THEN {<<>>}
    ELSE LET shorter == TextsUpTo(n - 1)
         IN  shorter \cup {Append(t, c) : t \in shorter, c \in Sigma}

Phrases == {
    <<"p","l","e","a","s","e"," ","t","u","r","n"," ","v","o","l","u","m","e"," ","u","p"," ","n","o","w">>,
    <<"v","o","l","u","m","e"," ","d","o","w","n">>,
    <<"M","A","X"," ","v","o","l","u","m","e">>,
    <<"w","h","a","t"," ","i","s"," ","m","y"," ","i","p"," ","a","d","d","r","e","s","s">>,
    <<"r","e","p","e","a","t"," ","a","f","t","e","r"," ","m","e"," ","h","e","l","l","o">>,
    <<"R","e","p","e","a","t"," ","A","f","t","e","r"," ","M","e"," ","H","e","l","l","o">>,
    <<"r","a","d","i","o"," ","c","a","p","i","t","a","l"," ","f","m">>,
    <<"p","l","a","y"," ","t","h","e"," ","r","a","d","i","o">>,
    <<"r","a","d","i","o">>,
    <<"p","o","d","c","a","s","t"," ","f","r","e","a","k","o","n","o","m","i","c","s">>,
    <<"p","o","d","c","a","s","t"," ","g","o","o","d"," ","j","o","b"," ","b","r","a","i","n">>,
    <<"p","o","d","c","a","s","t">>,
    <<"p","l","a","y"," ","m","y"," ","p","l","a","y","l","i","s","t">>,
    <<"p","l","e","a","s","e"," ","p","l","a","y"," ","t","h","e"," ","r","a","d","i","o"," ","n","o","w">>,
    <<"h","e","l","l","o"," ","t","h","e","r","e">> }

\* what is dispatched against each registry: the phrases against the
\* registries with phrase keywords, every short text against the registry
\* with short keywords
Utterances(name) ==
    IF name = "short" THEN TextsUpTo(MaxLen) ELSE Phrases \cup {<<>>}

HasVolumeControl(reg) ==
    \E i \in 1..Len(reg) : reg[i].handler.type = "VolumeControl"

\* the mixer level at start; only a VolumeControl handler reads or sets it
StartLevels(reg) ==
    IF HasVolumeControl(reg) THEN MinVolume..MaxVolume ELSE {MaxVolume}

\* answers of the shell to "ip -4 route get 1 | ..."
ShellAnswers == {
    [exit |-> 0, output |-> <<"1","9","2",".","1","6","8",".","1",".","7","\n">>],
    [exit |-> 0, output |-> <<"\n">>],
    [exit |-> 1, output |-> <<>>] }

\* answers of the shell to GET_VOLUME besides the level itself
BadVolumeAnswers == {
    [exit |-> 0, output |-> <<>>],
    [exit |-> 0, output |-> <<" "," ","M","o","n","o",":"," ","P","l","a","y","b","a","c","k"," ","2","6","3","0","4"," ","[","o","f","f","]","\n">>],
    [exit |-> 1, output |-> <<>>] }

VolumeAnswers(level) ==
    BadVolumeAnswers \cup {[exit |-> 0, output |-> ToDecimal(level) \o <<"\n">>]}

\* feed texts the network may return
Feeds == {
    <<"<","e","n","c","l","o","s","u","r","e"," ","u","r","l","=","\"","h","t","t","p",":","/","/","a",".","b","/","x",".","m","p","3","\""," ","/",">">>,
    <<"<","i","t","e","m",">","h","t","t","p",":","/","/","f","e","e","d","s",".","c","/","r","e","d","i","r","e","c","t",".","m","p","3","/","a",".","b","/","m","e","d","i","a","/","s","h","o","w",".","m","p","3","<","/","i","t","e","m",">">>,
    <<"<","r","s","s",">","<","t","i","t","l","e",">","n","o"," ","e","p","i","s","o","d","e","s","<","/","t","i","t","l","e",">","<","/","r","s","s",">">>,
    <<"<","r","s","s",">","<","l","i","n","k",">","h","t","t","p",":","/","/","a",".","b","/","a","b","o","u","t",".","m","p","3","<","/","l","i","n","k",">","<","/","r","s","s",">">>,
    <<>> }

FetchAnswers ==
    {[fetchOk |-> TRUE, text |-> t] : t \in Feeds}
        \cup {[fetchOk |-> FALSE, text |-> <<>>]}

\* FirstMatch over every mode, registry and utterance of the model,
\* evaluated once
DispatchKeys ==
    {<<ci, Registries[n], u>> : ci \in BOOLEAN, n \in RegNames,
                                u \in UNION {Utterances(m) : m \in RegNames}}

FirstMatchTable == [k \in DispatchKeys |-> FirstMatch(k[1], k[2], k[3])]

NoEnv == [exit |-> 0, output |-> <<>>, fetchOk |-> TRUE, text |-> <<>>,
          popenOk |-> TRUE, pkillOk |-> TRUE]

-----------------------------------------------------------------------------
(* State machine                                                           *)

Init ==
    /\ regName \in RegNames
    /\ registry = Registries[regName]
    /\ caseInsensitive \in BOOLEAN
    /\ pc = "idle"
    /\ utterance = <<>>
    /\ matched = 0
    /\ voice_command = <<>>
    /\ runs = <<>>
    /\ outcome = NoOutcome
    /\ said = <<>>
    /\ logged = <<>>
    /\ volume \in StartLevels(registry)
    /\ volumeBefore = volume
    /\ volumeSet = <<>>
    /\ env = NoEnv
    /\ command = Sentinel
    /\ player = "none"
    /\ playerInput = <<>>
    /\ pin23 = 1

Current == registry[matched].handler
Keyword == registry[matched].keyword

\* handler.run returned or raised: dispatch returns its outcome
Finish(raised) ==
    /\ pc' = "idle"
    /\ outcome' = OutcomeOf(Keyword, raised)

\* dispatch(u): steps 1-4, and the call of handler.run(u) of step 5
Dispatch(u) ==
    /\ pc = "idle"
    /\ LET m == FirstMatchTable[<<caseInsensitive, registry, u>>]
       IN  /\ utterance' = u
           /\ matched' = m
           /\ IF m = 0
              THEN /\ pc' = "idle"
                   /\ outcome' = NoMatch
                   /\ runs' = <<>>
                   /\ voice_command' = <<>>
              ELSE /\ pc' = "run"
                   /\ outcome' = NoOutcome
                   /\ runs' = <<m>>
                   /\ voice_command' = u
    /\ said' = <<>>
    /\ logged' = <<>>
    /\ volumeBefore' = volume
    /\ volumeSet' = <<>>
    /\ env' = NoEnv
    /\ command' = Sentinel
    /\ player' = "none"
    /\ playerInput' = <<>>
    /\ UNCHANGED <<regName, registry, caseInsensitive, volume, pin23>>

RunSpeakShellCommandOutput ==
    /\ pc = "run"
    /\ Current.type = "SpeakShellCommandOutput"
    /\ \E sh \in ShellAnswers :
        LET r == SpeakShellCommandOutputRun(Current, sh)
        IN  /\ env' = [env EXCEPT !.exit = sh.exit, !.output = sh.output]
            /\ said' = r.say
            /\ Finish(r.raised)
    /\ UNCHANGED <<regName, registry, caseInsensitive, utterance, matched,
                   volumeBefore, voice_command, runs, logged, volume, volumeSet, command,
                   player, playerInput, pin23>>

\* subprocess.call(SET_VOLUME % vol) ignores amixer's exit status: the
\* level may or may not have been applied
RunVolumeControl ==
    /\ pc = "run"
    /\ Current.type = "VolumeControl"
    /\ \E q \in VolumeAnswers(volume), applied \in BOOLEAN :
        LET r == VolumeControlRun(Current, q)
        IN  /\ env' = [env EXCEPT !.exit = q.exit, !.output = q.output]
            /\ said' = r.say
            /\ logged' = r.logged
            /\ volumeSet' = r.set
            /\ volume' = IF r.set /= <<>> /\ applied THEN r.set[1] ELSE volume
            /\ Finish(r.raised)
    /\ UNCHANGED <<regName, registry, caseInsensitive, utterance, matched,
                   volumeBefore, voice_command, runs, command, player, playerInput, pin23>>

RunRepeatAfterMe ==
    /\ pc = "run"
    /\ Current.type = "RepeatAfterMe"
    /\ said' = RepeatAfterMeRun(Current, voice_command)
    /\ Finish("none")
    /\ UNCHANGED <<regName, registry, caseInsensitive, utterance, matched,
                   volumeBefore, voice_command, runs, logged, volume, volumeSet, env,
                   command, player, playerInput, pin23>>

\* "if command != '1'": Popen of the player, then the wait loop; Popen
\* raises OSError when the program cannot be started.  e is env with what
\* the handler has been answered so far.
StartPlayer(cmd, raised, e) ==
    IF raised /= "none" \/ cmd = Sentinel THEN
        /\ env' = e
        /\ Finish(raised)
        /\ UNCHANGED player
    ELSE \/ /\ env' = [e EXCEPT !.popenOk = TRUE]
            /\ player' = "running"
            /\ pc' = "poll"
            /\ UNCHANGED outcome
         \/ /\ env' = [e EXCEPT !.popenOk = FALSE]
            /\ Finish("OSError")
            /\ UNCHANGED player

RunRadio ==
    /\ pc = "run"
    /\ Current.type = "Radio"
    /\ command' = RadioCommand(voice_command)
    /\ StartPlayer(RadioCommand(voice_command), "none", env)
    /\ UNCHANGED <<regName, registry, caseInsensitive, utterance, matched,
                   volumeBefore, voice_command, runs, said, logged, volume, volumeSet,
                   playerInput, pin23>>

RunPodcast ==
    /\ pc = "run"
    /\ Current.type = "Podcast"
    /\ \E fetch \in FetchAnswers :
        LET r == PodcastCommand(voice_command, fetch)
            e == IF PodcastFeed(voice_command) = "none" THEN env
                 ELSE [env EXCEPT !.fetchOk = fetch.fetchOk,
                                  !.text = fetch.text]
        IN  /\ command' = r.command
            /\ StartPlayer(r.command, r.raised, e)
    /\ UNCHANGED <<regName, registry, caseInsensitive, utterance, matched,
                   volumeBefore, voice_command, runs, said, logged, volume, volumeSet,
                   playerInput, pin23>>

RunPlay ==
    /\ pc = "run"
    /\ Current.type = "play"
    /\ \E ok \in BOOLEAN :
        /\ env' = [env EXCEPT !.popenOk = ok]
        /\ IF ok
           THEN /\ player' = "running"
                /\ playerInput' = PlayInput(Current, voice_command)
                /\ pc' = "poll"
                /\ UNCHANGED outcome
           ELSE /\ Finish("OSError")
                /\ UNCHANGED <<player, playerInput>>
    /\ UNCHANGED <<regName, registry, caseInsensitive, utterance, matched,
                   volumeBefore, voice_command, runs, said, logged, volume, volumeSet,
                   command, pin23>>

\* one evaluation of "while gpio.input(23)" reading v; on exit, pkill is
\* started (OSError when it cannot be) and then p.kill()
PollRead(v) ==
    /\ pc = "poll"
    /\ pin23' = v
    /\ IF StopRequested(v)
       THEN \E ok \in BOOLEAN :
            /\ env' = [env EXCEPT !.pkillOk = ok]
            /\ player' = IF ok THEN "killed" ELSE "orphaned"
            /\ Finish(IF ok THEN "none" ELSE "OSError")
       ELSE /\ pc' = "sleep"
            /\ UNCHANGED <<env, player, outcome>>
    /\ UNCHANGED <<regName, registry, caseInsensitive, utterance, matched,
                   volumeBefore, voice_command, runs, said, logged, volume, volumeSet,
                   command, playerInput>>

Poll == \E v \in {0, 1} : PollRead(v)

\* time.sleep(1)
Sleep ==
    /\ pc = "sleep"
    /\ pc' = "poll"
    /\ UNCHANGED <<regName, registry, caseInsensitive, utterance, matched,
                   volumeBefore, voice_command, runs, outcome, said, logged, volume,
                   volumeSet, env, command, player, playerInput, pin23>>

HandlerStep ==
    \/ RunSpeakShellCommandOutput
    \/ RunVolumeControl
    \/ RunRepeatAfterMe
    \/ RunRadio
    \/ RunPodcast
    \/ RunPlay
    \/ Poll
    \/ Sleep

Next ==
    \/ \E u \in Utterances(regName) : Dispatch(u)
    \/ HandlerStep

Spec == Init /\ [][Next]_vars

\* For termination the mixer's start level is immaterial: one level.
LiveInit == Init /\ volume = MaxVolume

\* The running handler keeps executing (a sleep of one second ends), and the
\* stop input read in the wait loop eventually reads low.
LiveSpec ==
    LiveInit /\ [][Next]_vars /\ WF_vars(HandlerStep) /\ SF_vars(PollRead(0))

-----------------------------------------------------------------------------
(* Properties                                                              *)

\* sub occurs in text, stated without Find
IsSubstr(sub, text) ==
    \E i \in 0..(Len(text) - Len(sub)) :
        \A k \in 1..Len(sub) : text[i + k] = sub[k]

\* s without the first occurrence of old, stated without Find
RemoveFirst(s, old) ==
    IF ~IsSubstr(old, s) THEN s
    ELSE LET i == CHOOSE i \in 0..(Len(s) - Len(old)) :
                    /\ \A k \in 1..Len(old) : s[i + k] = old[k]
                    /\ \A j \in 0..(i - 1) :
                          \E k \in 1..Len(old) : s[j + k] /= old[k]
         IN  [n \in 1..(Len(s) - Len(old)) |->
                 IF n <= i THEN s[n] ELSE s[n + Len(old)]]

\* binding j's keyword is contained in the utterance, in the dispatcher's mode
KeywordIn(j) ==
    IF caseInsensitive
    THEN IsSubstr(Lower(registry[j].keyword), Lower(utterance))
    ELSE IsSubstr(registry[j].keyword, utterance)

Matching == {j \in 1..Len(registry) : KeywordIn(j)}

\* a dispatch has returned
Returned == pc = "idle" /\ outcome.kind /= "None"

RanType(type) == matched /= 0 /\ Current.type = type

\* C1: when several registered keywords are contained in the utterance, the
\* handler that runs is the one of the earliest-registered matching binding,
\* never a later one, whatever the keywords' lengths or positions; with
\* make_actor's order an utterance containing both 'radio' and 'play' does
\* not run the play handler.
C1_FirstRegisteredWins ==
    /\ \A n \in 1..Len(runs) :
          /\ runs[n] \in Matching
          /\ \A j \in Matching : runs[n] <= j
    /\ (/\ regName = "make_actor"
        /\ \E i \in Matching : registry[i].keyword = <<"r","a","d","i","o">>
        /\ \E j \in Matching : registry[j].keyword = <<"p","l","a","y">>)
       => \A n \in 1..Len(runs) : registry[runs[n]].handler.type /= "play"

\* reached: a later-registered, longer keyword matches too and the earlier
\* binding's handler ran
C1_Witness ==
    /\ Returned
    /\ outcome.kind = "Handled"
    /\ \E i \in Matching, j \in Matching :
          /\ i < j
          /\ Len(registry[j].keyword) > Len(registry[i].keyword)
          /\ runs = <<i>>

\* C2: one dispatch invokes run on no handler when no registered keyword is
\* contained in the utterance (outcome NoMatch, also for the empty
\* utterance), on exactly one handler otherwise, and never on two.
C2_AtMostOneRun ==
    /\ Len(runs) <= 1
    /\ pc /= "idle" => Len(runs) = 1
    /\ Returned =>
          /\ Matching = {} => (runs = <<>> /\ outcome = NoMatch)
          /\ Matching /= {} =>
                (Len(runs) = 1 /\ outcome.kind \in {"Handled", "HandlerFailed"})
          /\ utterance = <<>> => outcome = NoMatch

\* reached: several keywords match and exactly one handler ran
C2_Witness ==
    /\ Returned
    /\ Cardinality(Matching) >= 2
    /\ Len(runs) = 1

\* C3: a handler failing in run (the shell command of
\* SpeakShellCommandOutput or the amixer query of VolumeControl exiting
\* non-zero) makes dispatch return HandlerFailed(keyword, error); nothing was
\* said or set, the registry and the mixer level are as before the dispatch,
\* and the dispatcher is idle again for the next utterance.
C3_FailureIsolated ==
    /\ registry = Registries[regName]
    /\ (Returned /\ matched /= 0
        /\ Current.type \in {"SpeakShellCommandOutput", "VolumeControl"}
        /\ env.exit /= 0)
       => outcome = HandlerFailed(Keyword, "CalledProcessError")
    /\ (Returned /\ outcome.kind = "HandlerFailed")
       => /\ matched /= 0
          /\ outcome.keyword = Keyword
          /\ outcome.error /= "none"
          /\ said = <<>>
          /\ volumeSet = <<>>
          /\ volume = volumeBefore

\* reached: the ip-address command failed and dispatch returned HandlerFailed
C3_Witness ==
    /\ Returned
    /\ RanType("SpeakShellCommandOutput")
    /\ env.exit /= 0
    /\ outcome = HandlerFailed(<<"i","p"," ","a","d","d","r","e","s","s">>, "CalledProcessError")

C5_RunGetsOriginal ==
    /\ runs /= <<>> => voice_command = utterance
    /\ (Returned /\ RanType("RepeatAfterMe"))
       => said = <<RemoveFirst(utterance, Keyword)>>
    /\ (RanType("play") /\ player /= "none")
       => playerInput = <<"/">> \o RemoveFirst(utterance, Keyword) \o <<"\n","1","\n">>

\* reached: a mixed-case utterance matched case-insensitively and was
\* repeated unchanged
C5_Witness ==
    /\ Returned
    /\ RanType("RepeatAfterMe")
    /\ caseInsensitive
    /\ utterance /= Lower(utterance)
    /\ said = <<utterance>>

RadioPhrase == <<"p","l","e","a","s","e"," ","p","l","a","y"," ","t","h","e"," ","r","a","d","i","o"," ","n","o","w">>

\* C6: in case-insensitive mode a keyword matches when its case-folded text
\* is contained in the case-folded utterance, and the outcome carries the
\* keyword as registered: "Radio" against "please play the radio now" is
\* Handled("Radio"); in case-sensitive mode it is NoMatch.
C6_CaseFolding ==
    /\ (Returned /\ outcome.kind /= "NoMatch")
       => \E j \in Matching : outcome.keyword = registry[j].keyword
    /\ (Returned /\ regName = "capital_radio" /\ utterance = RadioPhrase)
       => IF caseInsensitive THEN outcome = Handled(<<"R","a","d","i","o">>)
          ELSE outcome = NoMatch

\* reached: Handled("Radio") for the lower-case phrase
C6_Witness ==
    /\ Returned
    /\ caseInsensitive
    /\ utterance = RadioPhrase
    /\ outcome = Handled(<<"R","a","d","i","o">>)

\* the marker Podcast.run searches in the feed it fetched for this command
MarkerFor(vc) ==
    IF PodcastFeed(vc) = "enclosure" THEN EnclosureMarker ELSE RedirectMarker

\* C7: Podcast.run starts the player only when the marker was found in the
\* fetched feed (and a podcast name was recognised); otherwise command keeps
\* the sentinel and no player is started.
C7_PlayerOnlyWhenUrlFound ==
    (RanType("Podcast") /\ pc /= "run")
    => /\ (PodcastFeed(voice_command) = "none"
           \/ ~IsSubstr(MarkerFor(voice_command), env.text))
          => (command = Sentinel /\ player = "none")

\* C8: VolumeControl.run handles every amixer failure itself: on a non-zero
\* exit of the query or a non-integer answer it logs, returns normally, sets
\* no volume and says nothing.
C8_VolumeFailuresHandled ==
    (/\ Returned
     /\ RanType("VolumeControl")
     /\ (env.exit /= 0 \/ ~IsIntText(Strip(env.output))))
    => /\ outcome.kind = "Handled"
       /\ logged /= <<>>
       /\ volumeSet = <<>>
       /\ said = <<>>

\* C9: every volume VolumeControl.run sets is an integer in 0..100, equals
\* max(0, min(100, current + change)), and is the value announced.
C9_VolumeClamped ==
    (Returned /\ RanType("VolumeControl") /\ outcome.kind = "Handled"
     /\ logged = <<>>)
    => /\ Len(volumeSet) = 1
       /\ volumeSet[1] \in 0..100
       /\ LET target == volumeBefore + Current.change
              v == volumeSet[1]
          IN  /\ target < 0 => v = 0
              /\ target > 100 => v = 100
              /\ target \in 0..100 => v = target
       /\ said = <<<<"V","o","l","u","m","e"," ","a","t"," ">> \o ToDecimal(volumeSet[1]) \o <<" ","%",".">>>>
       /\ volume \in {volumeBefore, volumeSet[1]}

\* reached: 'max volume' from a level above 0 set and announced 100
C9_Witness ==
    /\ Returned
    /\ RanType("VolumeControl")
    /\ Current.change = 100
    /\ volumeBefore > 0
    /\ volumeSet = <<100>>
    /\ said = <<<<"V","o","l","u","m","e"," ","a","t"," ","1","0","0"," ","%",".">>>>

====
